---- MODULE Spec2Model ----
(***************************************************************************)
(* ci-operator, cmd/ci-operator/main.go: options.Run and the functions it  *)
(* calls (resolveInputs, inputHash, printExecutionOrder, topologicalSort,  *)
(* initializeNamespace, writeJUnit) as a state machine.                    *)
(*                                                                         *)
(* Strings are sequences of one-character strings.  A step is named by a   *)
(* number; the link a step creates carries the step's number.              *)
(***************************************************************************)
EXTENDS Integers, Sequences, FiniteSets, TLC

\* ------------------------------------------------------------------ bounds
NumSteps == 2
SortSteps == 3
MaxTemplateTokens == 3
MaxAttempts == 1
MaxHooks == 2
MaxHashSteps == 2

\* ------------------------------------------------------- program constants
ForbiddenRetries == 5
HashBytes == 5

VARIABLES
    flags,         \* the values of the command line flags, as the caller gave them
    calls,         \* the calls Run's function body has made, and those that returned nil
    requires,      \* buildSteps: Step.Requires() of every step of the world
    stepInputs,    \* buildSteps: the definition Step.Inputs() of every step answers
    postSteps,     \* postSteps: what Step.Run() of every post-run hook answers
    configSpec,    \* json.Marshal(o.configSpec)
    o,             \* the options struct of the invocation
    stepInputs2,   \* a second invocation: the definitions of its steps
    configSpec2,   \* a second invocation: its serialized configuration
    o2,            \* a second invocation: its options struct
    pc,            \* the position of Run's function body
    err,           \* the error Run returns ("" is nil)
    queried,       \* the steps whose Inputs() has been called, in call order
    nodes,         \* the root list BuildPartialGraph returned
    children,      \* StepNode.Children of every node
    ordered,       \* the result of topologicalSort in printExecutionOrder
    retries,       \* initializeNamespace: the local retries
    attempts,      \* initializeNamespace: iterations of the creation loop so far
    forbidden,     \* initializeNamespace: the gets answered Forbidden, while in the loop
    answer,        \* what the cluster answered to the last create and to the get after it
    created,       \* the phases of the projects the successful creates returned
    lastProject,   \* the phase of the project the last iteration obtained
    requests,      \* the kinds of cluster requests issued so far
    nodeState,     \* steps.Run: the scheduler's state of every node
    stepsErr,      \* the error steps.Run returned ("" is nil)
    junitErr,      \* the error writeJUnit returned ("" is nil)
    hooksRun,      \* the results of the post-run hooks invoked so far
    cancelled,     \* whether cancel() of the context has been called
    handler,       \* the position of the interrupt handler
    exitCode       \* the status os.Exit was called with (-1: not called)

vars == <<flags, calls, requires, stepInputs, postSteps, configSpec, o, stepInputs2, configSpec2,
          o2, pc, err, queried, nodes, children, ordered, retries, attempts,
          forbidden, answer, created, lastProject, requests, nodeState, stepsErr, junitErr,
          hooksRun, cancelled, handler, exitCode>>

\* ------------------------------------------------------------- sequences
Range(s) == {s[i] : i \in 1..Len(s)}

RECURSIVE Concat(_)
Concat(ss) == IF Len(ss) = 0 THEN <<>> ELSE Head(ss) \o Concat(Tail(ss))

\* the sequences over S of length at most n
SeqsUpTo(S, n) == UNION {[1..k -> S] : k \in 0..n}

\* the orderings of a finite set
Perms(S) == {f \in [1..Cardinality(S) -> S] : \A i, j \in 1..Cardinality(S) : f[i] = f[j] => i = j}

\* a finite set of numbers in ascending order
RECURSIVE Ascending(_)
Ascending(S) == IF S = {} THEN <<>>
                ELSE LET m == CHOOSE x \in S : \A y \in S : x <= y
                     IN <<m>> \o Ascending(S \ {m})

\* the steps of the world, named 1, 2, ...
Steps == DOMAIN requires

\* a link no step of the world creates (an external input)
ExternalLink == 0

\* ------------------------------------------------------------ link algebra
\* Step.Creates(): every step creates the one link that carries its number,
\* so the creates of distinct steps are disjoint
Creates(s) == {s}

\* api.HasAllLinks: every required link is among the satisfied ones
HasAllLinks(required, satisfied) == required \subseteq satisfied

\* ------------------------------------------------------- workspace naming
\* oneWayNameEncoding: the 32 symbols "bcdfghijklmnpqrstvwxyz0123456789"
oneWayNameEncoding ==
    <<"b","c","d","f","g","h","i","j","k","l","m","n","p","q","r","s",
      "t","v","w","x","y","z","0","1","2","3","4","5","6","7","8","9">>

\* the characters the modelled strings are made of, and the byte of each
Chars == <<"{", "i", "d", "}", "n", "a", "b", "c", "-", "o", "p">>
ByteOf(c) == CHOOSE k \in 1..Len(Chars) : Chars[k] = c

\* byte k of the digest of a byte string: a stand-in for SHA-256 that reads
\* every byte of the string in order (each byte of the digest folds the
\* string with its own odd multiplier)
RECURSIVE Fold(_, _, _, _)
Fold(str, i, h, m) == IF i > Len(str) THEN h
                      ELSE Fold(str, i + 1, (h * m + ByteOf(str[i])) % 256, m)
SumByte(str, k) == Fold(str, 1, (37 * k) % 256, 2 * k + 1)

\* base32.Encoding.EncodeToString without padding: the bits of the bytes,
\* most significant first, in groups of five, each group one symbol
BitsOf(bytes) == [b \in 1..(8 * Len(bytes)) |->
                    (bytes[((b - 1) \div 8) + 1] \div (2 ^ (7 - ((b - 1) % 8)))) % 2]
EncodeToString(alphabet, bytes) ==
    LET bits == BitsOf(bytes)
        n == (Len(bits) + 4) \div 5
        bit(b) == IF b <= Len(bits) THEN bits[b] ELSE 0
        group(g) == 16 * bit(5 * g - 4) + 8 * bit(5 * g - 3) + 4 * bit(5 * g - 2)
                    + 2 * bit(5 * g - 1) + bit(5 * g)
    IN [g \in 1..n |-> alphabet[group(g) + 1]]

\* inputHash: the inputs are written to one hash one after the other, the
\* first five bytes of the sum are encoded
inputHash(inputs) ==
    EncodeToString(oneWayNameEncoding,
                   [k \in 1..HashBytes |-> SumByte(Concat(inputs), k)])

Placeholder == <<"{", "i", "d", "}">>
DefaultNamespace == <<"c", "i", "-", "o", "p", "-">> \o Placeholder

\* strings.Replace(s, old, new, -1) for a non-empty old: the occurrences of
\* old, found left to right without overlap, are each replaced by new
RECURSIVE Replace(_, _, _)
Replace(s, old, new) ==
    IF Len(s) < Len(old) THEN s
    ELSE IF SubSeq(s, 1, Len(old)) = old
         THEN new \o Replace(SubSeq(s, Len(old) + 1, Len(s)), old, new)
         ELSE <<Head(s)>> \o Replace(Tail(s), old, new)

\* strings.Replace(s, old, new, 1): the first occurrence alone
RECURSIVE ReplaceFirst(_, _, _)
ReplaceFirst(s, old, new) ==
    IF Len(s) < Len(old) THEN s
    ELSE IF SubSeq(s, 1, Len(old)) = old
         THEN new \o SubSeq(s, Len(old) + 1, Len(s))
         ELSE <<Head(s)>> \o ReplaceFirst(Tail(s), old, new)

\* resolveInputs, lines 469-473, with the first placeholder alone replaced
\* (a faulty variant)
namespaceOfFirstOnly(namespace, hash) ==
    ReplaceFirst(IF Len(namespace) = 0 THEN DefaultNamespace ELSE namespace,
                 Placeholder, hash)

\* resolveInputs, lines 469-473: the namespace the run works in
namespaceOf(namespace, hash) ==
    Replace(IF Len(namespace) = 0 THEN DefaultNamespace ELSE namespace,
            Placeholder, hash)

\* -------------------------------------------------------- topologicalSort
\* the state of the loop: sortedNodes, satisfied (a list in the code, read
\* only through HasAllLinks, so its order and repetitions do not matter),
\* seen, and the waiting list and changed flag of the current pass
SortStart == [sorted |-> <<>>, satisfied |-> {}, seen |-> {},
              waiting |-> <<>>, changed |-> FALSE]

UnseenChildren(node, st) == SelectSeq(children[node], LAMBDA c : c \notin st.seen)

\* lines 782-799 with the test of seen[node.Step] left out (a faulty variant)
RECURSIVE sortPassNoSeen(_, _, _)
sortPassNoSeen(list, i, st) ==
    IF i > Len(list) THEN st
    ELSE LET node == list[i]
             w == st.waiting \o UnseenChildren(node, st)
         IN IF ~HasAllLinks(requires[node], st.satisfied)
            THEN sortPassNoSeen(list, i + 1, [st EXCEPT !.waiting = Append(w, node)])
            ELSE sortPassNoSeen(list, i + 1,
                     [st EXCEPT !.waiting = w,
                                !.satisfied = @ \cup Creates(node),
                                !.sorted = Append(@, node),
                                !.seen = @ \cup {node},
                                !.changed = TRUE])

\* lines 782-799: one pass over the current node list, from position i on
RECURSIVE sortPass(_, _, _)
sortPass(list, i, st) ==
    IF i > Len(list) THEN st
    ELSE LET node == list[i]
             w == st.waiting \o UnseenChildren(node, st)
         IN IF node \in st.seen
            THEN sortPass(list, i + 1, [st EXCEPT !.waiting = w])
            ELSE IF ~HasAllLinks(requires[node], st.satisfied)
            THEN sortPass(list, i + 1, [st EXCEPT !.waiting = Append(w, node)])
            ELSE sortPass(list, i + 1,
                     [st EXCEPT !.waiting = w,
                                !.satisfied = @ \cup Creates(node),
                                !.sorted = Append(@, node),
                                !.seen = @ \cup {node},
                                !.changed = TRUE])

\* lines 779-814 with the test of a stuck pass left out: what has been
\* sorted so far is returned (a faulty variant)
RECURSIVE sortLoopNoStuckTest(_, _)
sortLoopNoStuckTest(list, st) ==
    IF Len(list) = 0 THEN [err |-> "", sorted |-> st.sorted]
    ELSE LET p == sortPass(list, 1, [st EXCEPT !.waiting = <<>>, !.changed = FALSE])
         IN IF ~p.changed THEN [err |-> "", sorted |-> p.sorted]
            ELSE sortLoopNoStuckTest(p.waiting, p)

\* lines 779-799: the state at the end of each pass the loop makes, in order;
\* a pass that changed nothing is the last one (it returns the error, or
\* leaves an empty node list)
RECURSIVE sortPasses(_, _)
sortPasses(list, st) ==
    IF Len(list) = 0 THEN <<>>
    ELSE LET p == sortPass(list, 1, [st EXCEPT !.waiting = <<>>, !.changed = FALSE])
         IN <<p>> \o (IF ~p.changed THEN <<>> ELSE sortPasses(p.waiting, p))

\* lines 779-814: the passes, until the node list is empty or a pass is stuck
RECURSIVE sortLoop(_, _)
sortLoop(list, st) ==
    IF Len(list) = 0 THEN [err |-> "", sorted |-> st.sorted]
    ELSE LET p == sortPass(list, 1, [st EXCEPT !.waiting = <<>>, !.changed = FALSE])
         IN IF ~p.changed /\ Len(p.waiting) > 0
            THEN [err |-> "steps are missing dependencies", sorted |-> <<>>]
            ELSE sortLoop(p.waiting, p)

\* topologicalSort with each root list put in step-name order first (a faulty variant)
topologicalSortByName(list) == sortLoop(Ascending(Range(list)), SortStart)

\* topologicalSort
topologicalSort(list) == sortLoop(list, SortStart)

\* ------------------------------------------------------------ the inputs
\* the answers of Step.Inputs(): an error, or an input definition
InputsError == [err |-> TRUE, definition |-> <<>>]
InputsOf(definition) == [err |-> FALSE, definition |-> definition]

\* the caller's values of --namespace, put together from these pieces
TemplateTokens == {<<"{", "i", "d", "}">>, <<"{">>, <<"i", "d", "}">>,
                   <<"{", "i">>, <<"d", "}">>, <<"n">>}
Templates == {Concat(t) : t \in SeqsUpTo(TemplateTokens, MaxTemplateTokens)}

Options(namespaces, targetSets, dryFlags) ==
    [namespace : namespaces, targets : targetSets, dry : dryFlags, inputHash : {<<>>}]

\* ------------------------------------------------------ BuildPartialGraph
\* the steps that create a link s requires
Parents(s) == {p \in Steps : Creates(p) \cap requires[s] # {}}

RECURSIVE AncestorClosure(_)
AncestorClosure(S) ==
    LET more == S \cup UNION {Parents(s) : s \in S}
    IN IF more = S THEN S ELSE AncestorClosure(more)

\* the graph of the whole world for no target, of the ancestor closure of the
\* targets otherwise; roots and children in step-name order
BuildPartialGraph(names) ==
    IF ~(names \subseteq Steps)
    THEN [err |-> "unknown target", members |-> {}, roots |-> <<>>,
          children |-> [s \in Steps |-> <<>>]]
    ELSE LET members == IF names = {} THEN Steps ELSE AncestorClosure(names)
         IN [err |-> "",
             members |-> members,
             roots |-> Ascending({s \in members : Parents(s) \cap members = {}}),
             children |-> [p \in Steps |->
                 IF p \in members
                 THEN Ascending({s \in members : p \in Parents(s)})
                 ELSE <<>>]]

\* ----------------------------------------------------------- resolveInputs
\* lines 451-478 with o.dry written to the hash as well (a faulty variant)
resolveInputsWithDry(opt, answers, config) ==
    LET failed == {i \in 1..Len(answers) : answers[i].err}
    IN IF failed # {}
       THEN [err |-> "input resolution", o |-> opt,
             calls |-> CHOOSE i \in failed : \A j \in failed : i <= j]
       ELSE LET inputs == Concat([i \in 1..Len(answers) |-> answers[i].definition])
                          \o <<config>> \o <<IF opt.dry THEN <<"d">> ELSE <<>> >>
                hash == inputHash(inputs)
            IN [err |-> "",
                o |-> [opt EXCEPT !.inputHash = hash,
                                  !.namespace = namespaceOf(opt.namespace, hash)],
                calls |-> Len(answers)]

\* lines 451-478: Inputs() of each step in order, up to the first error; the
\* definitions and then the serialized configuration make the input
\* definition; o.inputHash and o.namespace are set from it
resolveInputs(opt, answers, config) ==
    LET failed == {i \in 1..Len(answers) : answers[i].err}
    IN IF failed # {}
       THEN [err |-> "input resolution", o |-> opt,
             calls |-> CHOOSE i \in failed : \A j \in failed : i <= j]
       ELSE LET inputs == Concat([i \in 1..Len(answers) |-> answers[i].definition])
                          \o <<config>>
                hash == inputHash(inputs)
            IN [err |-> "",
                o |-> [opt EXCEPT !.inputHash = hash,
                                  !.namespace = namespaceOf(opt.namespace, hash)],
                calls |-> Len(answers)]

\* line 389 with the steps of the pruned graph passed instead (a faulty variant)
ResolvedStepsPruned == Ascending(BuildPartialGraph(o.targets).members)

\* line 389: the steps Run passes to resolveInputs are buildSteps, the world
ResolvedSteps == Ascending(Steps)

\* ------------------------------------------------------------------- Run
Alive == exitCode = -1

\* lines 389-407, "if err != nil { return err }", with the error ignored
\* (a faulty variant)
checkedIgnored(e, next) == next

\* lines 389-407, "if err != nil { return err }": where Run goes on after a
\* call that returned e
checked(e, next) == IF e # "" THEN "done" ELSE next

\* Run goes on after a call that returned e
GoOn(e, next) ==
    /\ pc' = checked(e, next)
    /\ err' = IF checked(e, next) = "done" THEN e ELSE err

\* Run returns e from its function body
Return(e) == pc' = "done" /\ err' = e

\* lines 389-391; the first step whose Inputs() fails, if any, is failing
ResolveInputs ==
    /\ Alive /\ pc = "resolveInputs"
    /\ \E failing \in 0..Len(ResolvedSteps) :
       LET steps == ResolvedSteps
           r == resolveInputs(o, [i \in 1..Len(steps) |->
                                     IF i = failing THEN InputsError
                                     ELSE InputsOf(stepInputs[steps[i]])], configSpec)
       IN /\ queried' = SubSeq(steps, 1, r.calls)
          /\ o' = r.o
          /\ GoOn(r.err, "buildGraph")
          /\ calls' = calls \cup {"resolveInputs"}
    /\ UNCHANGED <<flags, requires, stepInputs, postSteps, configSpec, stepInputs2, configSpec2,
                   o2, nodes, children, ordered, retries, attempts, forbidden, answer, created,
                   lastProject, requests, nodeState, stepsErr, junitErr, hooksRun,
                   cancelled, handler, exitCode>>

\* lines 394-397
BuildGraph ==
    /\ Alive /\ pc = "buildGraph"
    /\ LET g == BuildPartialGraph(o.targets)
       IN /\ nodes' = g.roots
          /\ children' = g.children
          /\ nodeState' = [s \in Steps |-> IF s \in g.members THEN "pending" ELSE "absent"]
          /\ GoOn(g.err, "printOrder")
          /\ calls' = calls \cup {"BuildPartialGraph"}
    /\ UNCHANGED <<flags, requires, stepInputs, postSteps, configSpec, o, stepInputs2,
                   configSpec2, o2, queried, ordered, retries, attempts, forbidden, answer, created,
                   lastProject, requests, stepsErr, junitErr, hooksRun, cancelled,
                   handler, exitCode>>

\* lines 399-401 and 817-824
PrintExecutionOrder ==
    /\ Alive /\ pc = "printOrder"
    /\ ordered' = topologicalSort(nodes)
    /\ GoOn(ordered'.err, "initializeNamespace")
    /\ calls' = calls \cup {"printExecutionOrder"}
    /\ UNCHANGED <<flags, requires, stepInputs, postSteps, configSpec, o, stepInputs2,
                   configSpec2, o2, queried, nodes, children, retries, attempts, forbidden, answer,
                   created, lastProject, requests, nodeState, stepsErr, junitErr,
                   hooksRun, cancelled, handler, exitCode>>

\* ---------------------------------------------------- initializeNamespace
\* what the cluster answers to ProjectRequests().Create and Projects().Get:
\* the phase of the project it returns, or the kind of the error
CreateAnswers == {"Active", "Terminating", "AlreadyExists", "error"}
GetAnswers == {"Active", "Terminating", "NotFound", "Forbidden", "error"}

\* no answer: before the first iteration, and for the get that is not made
NoAnswer == <<"", "">>

\* lines 518-523 with the test inverted (a faulty variant)
PhaseCheckInverted(phase, r) ==
    [exit |-> IF phase = "Terminating" THEN "break" ELSE "continue",
     err |-> "", retries |-> r, project |-> phase]

\* lines 518-523 with the break left out: the loop goes round whatever the
\* phase of the project (a faulty variant)
PhaseCheckNoBreak(phase, r) ==
    [exit |-> "continue", err |-> "", retries |-> r, project |-> phase]

\* lines 518-523: the test of the phase of the project obtained
PhaseCheck(phase, r) ==
    [exit |-> IF phase = "Terminating" THEN "continue" ELSE "break",
     err |-> "", retries |-> r, project |-> phase]

\* lines 492-524 with the break taken whatever the phase (a faulty variant)
namespaceIterationNoPhase(create, get, r) ==
    IF create = "error"
    THEN [exit |-> "return", err |-> "could not set up namespace for test",
          retries |-> r, project |-> ""]
    ELSE IF create = "AlreadyExists"
    THEN IF get = "NotFound"
         THEN [exit |-> "continue", err |-> "", retries |-> r, project |-> ""]
         ELSE IF get = "Forbidden" /\ r > 0
         THEN [exit |-> "continue", err |-> "", retries |-> r - 1, project |-> ""]
         ELSE IF get \in {"Forbidden", "error"}
         THEN [exit |-> "return", err |-> "cannot retrieve test namespace",
               retries |-> r, project |-> ""]
         ELSE [exit |-> "break", err |-> "", retries |-> r, project |-> get]
    ELSE [exit |-> "break", err |-> "", retries |-> r, project |-> create]

\* lines 492-524 with retries set anew in an iteration that finds no
\* project (a faulty variant)
namespaceIterationRetriesAnew(create, get, r) ==
    IF create = "error"
    THEN [exit |-> "return", err |-> "could not set up namespace for test",
          retries |-> r, project |-> ""]
    ELSE IF create = "AlreadyExists"
    THEN IF get = "NotFound"
         THEN [exit |-> "continue", err |-> "", retries |-> ForbiddenRetries,
               project |-> ""]
         ELSE IF get = "Forbidden" /\ r > 0
         THEN [exit |-> "continue", err |-> "", retries |-> r - 1, project |-> ""]
         ELSE IF get \in {"Forbidden", "error"}
         THEN [exit |-> "return", err |-> "cannot retrieve test namespace",
               retries |-> r, project |-> ""]
         ELSE PhaseCheck(get, r)
    ELSE PhaseCheck(create, r)

\* lines 492-524: one iteration of the creation loop, for the answers of the
\* cluster to the create and (after AlreadyExists) to the get
namespaceIteration(create, get, r) ==
    IF create = "error"
    THEN [exit |-> "return", err |-> "could not set up namespace for test",
          retries |-> r, project |-> ""]
    ELSE IF create = "AlreadyExists"
    THEN IF get = "NotFound"
         THEN [exit |-> "continue", err |-> "", retries |-> r, project |-> ""]
         ELSE IF get = "Forbidden" /\ r > 0
         THEN [exit |-> "continue", err |-> "", retries |-> r - 1, project |-> ""]
         ELSE IF get \in {"Forbidden", "error"}
         THEN [exit |-> "return", err |-> "cannot retrieve test namespace",
               retries |-> r, project |-> ""]
         ELSE PhaseCheck(get, r)
    ELSE PhaseCheck(create, r)

\* lines 482-484 with the return left out: the project is asked for in dry
\* mode too (a faulty variant)
InitializeNamespaceDryCreates ==
    /\ Alive /\ pc = "initializeNamespace" /\ o.dry
    /\ pc' = "createResources"
    /\ calls' = calls \cup {"initializeNamespace"}
    /\ requests' = requests \cup {"create project"}
    /\ created' = Append(created, "Active") /\ lastProject' = "Active"
    /\ UNCHANGED <<flags, requires, stepInputs, postSteps, configSpec, o, stepInputs2,
                   configSpec2, o2, err, queried, nodes, children, ordered, retries,
                   attempts, forbidden, answer, nodeState, stepsErr, junitErr, hooksRun, cancelled,
                   handler, exitCode>>

\* lines 482-484: in dry mode nothing is asked of the cluster
InitializeNamespaceDry ==
    /\ Alive /\ pc = "initializeNamespace" /\ o.dry
    /\ pc' = "stepsRun"
    /\ calls' = calls \cup {"initializeNamespace", "initializeNamespace nil", "steps.Run"}
    /\ UNCHANGED <<flags, requires, stepInputs, postSteps, configSpec, o, stepInputs2,
                   configSpec2, o2, err, queried, nodes, children, ordered, retries,
                   attempts, forbidden, answer, created, lastProject, requests, nodeState, stepsErr,
                   junitErr, hooksRun, cancelled, handler, exitCode>>

\* lines 485-488: no project client for the cluster configuration
ProjectClientFails ==
    /\ Alive /\ pc = "initializeNamespace" /\ ~o.dry /\ attempts = 0
    /\ Return("could not get project client for cluster config")
    /\ calls' = calls \cup {"initializeNamespace"}
    /\ UNCHANGED <<flags, requires, stepInputs, postSteps, configSpec, o, stepInputs2,
                   configSpec2, o2, queried, nodes, children, ordered, retries,
                   attempts, forbidden, answer, created, lastProject, requests, nodeState, stepsErr,
                   junitErr, hooksRun, cancelled, handler, exitCode>>

\* lines 491-524: an iteration of the creation loop.  The iterations that go
\* round without using the retries are counted in attempts up to MaxAttempts;
\* past that count a create that succeeds is left out, to keep created finite,
\* and the loop still goes round on NotFound and on a Terminating project.
CreateProject ==
    /\ Alive /\ pc = "initializeNamespace" /\ ~o.dry
    /\ attempts <= MaxAttempts
    /\ \E create \in CreateAnswers, get \in GetAnswers :
         LET it == namespaceIteration(create, get, retries)
             round == it.exit = "continue" /\ it.retries = retries
         IN /\ create # "AlreadyExists" => get = "error"
            /\ round /\ attempts = MaxAttempts => create = "AlreadyExists"
            /\ created' = IF create \in {"Active", "Terminating"}
                          THEN Append(created, create) ELSE created
            /\ calls' = calls \cup {"initializeNamespace"}
            /\ requests' = requests \cup {"create project"}
                              \cup (IF create = "AlreadyExists" THEN {"get project"} ELSE {})
            /\ lastProject' = it.project
            /\ answer' = <<create, IF create = "AlreadyExists" THEN get ELSE "">>
            /\ CASE it.exit = "return" ->
                      /\ Return(it.err)
                      /\ retries' = ForbiddenRetries /\ attempts' = 0
                      /\ forbidden' = IF answer'[2] = "Forbidden"
                                      THEN forbidden + 1 ELSE forbidden
                 [] it.exit = "continue" ->
                      /\ pc' = pc /\ err' = err
                      /\ retries' = it.retries
                      /\ attempts' = IF round /\ attempts < MaxAttempts
                                     THEN attempts + 1 ELSE attempts
                      /\ forbidden' = IF answer'[2] = "Forbidden"
                                      THEN forbidden + 1 ELSE forbidden
                 [] it.exit = "break" ->
                      /\ pc' = "createResources" /\ err' = err
                      /\ retries' = ForbiddenRetries /\ attempts' = 0
                      /\ forbidden' = 0
    /\ UNCHANGED <<flags, requires, stepInputs, postSteps, configSpec, o, stepInputs2,
                   configSpec2, o2, queried, nodes, children, ordered, nodeState,
                   stepsErr, junitErr, hooksRun, cancelled, handler, exitCode>>

\* lines 526-590: the cleanup pod (with its service account and role binding)
\* when an idle cleanup duration is set, the pipeline image stream, the secrets;
\* the first request that fails ends initializeNamespace with its error
ResourceKinds == <<"cleanup pod", "image stream", "secrets">>
CreateResources ==
    /\ Alive /\ pc = "createResources"
    /\ \E idle \in BOOLEAN, failAt \in 0..Len(ResourceKinds) :
         LET wanted == {k \in 1..Len(ResourceKinds) : k = 1 => idle}
             issued == {k \in wanted : failAt = 0 \/ k <= failAt}
         IN /\ failAt # 0 => failAt \in wanted
            /\ requests' = requests \cup {"create " \o ResourceKinds[k] : k \in issued}
            /\ IF failAt # 0
               THEN Return("could not set up " \o ResourceKinds[failAt]) /\ calls' = calls
               ELSE /\ pc' = "stepsRun" /\ err' = err
                    /\ calls' = calls \cup {"initializeNamespace nil", "steps.Run"}
    /\ UNCHANGED <<flags, requires, stepInputs, postSteps, configSpec, o, stepInputs2,
                   configSpec2, o2, queried, nodes, children, ordered, retries,
                   attempts, forbidden, answer, created, lastProject, nodeState, stepsErr, junitErr,
                   hooksRun, cancelled, handler, exitCode>>

\* -------------------------------------------------------------- steps.Run
Members == {s \in Steps : nodeState[s] # "absent"}

RECURSIVE DescendantClosure(_)
DescendantClosure(S) ==
    LET more == S \cup UNION {Range(children[s]) : s \in S}
    IN IF more = S THEN S ELSE DescendantClosure(more)
Descendants(s) == DescendantClosure(Range(children[s]))

\* a pending node is ready when its parents in the graph are done
Ready == {s \in Members : /\ nodeState[s] = "pending"
                          /\ \A p \in Parents(s) \cap Members : nodeState[p] = "done"}
Running == {s \in Members : nodeState[s] = "running"}

\* every ready node is dispatched; in dry mode it is marked done without run
Dispatch ==
    /\ Alive /\ pc = "stepsRun" /\ stepsErr = "" /\ ~cancelled
    /\ Ready # {}
    /\ nodeState' = [s \in Steps |->
           IF s \in Ready THEN (IF o.dry THEN "done" ELSE "running") ELSE nodeState[s]]
    /\ UNCHANGED <<flags, calls, requires, stepInputs, postSteps, configSpec, o, stepInputs2,
                   configSpec2, o2, pc, err, queried, nodes, children, ordered,
                   retries, attempts, forbidden, answer, created, lastProject, requests, stepsErr,
                   junitErr, hooksRun, cancelled, handler, exitCode>>

\* a running step returns: done, failed, or (once cancellation has been
\* signalled) cancelled.  The first error is recorded and the descendants
\* that are not running yet are cancelled.
StepReturns ==
    /\ Alive /\ pc = "stepsRun"
    /\ \E s \in Running :
       \E outcome \in {"done", "failed"}
                      \cup (IF cancelled \/ stepsErr # "" THEN {"cancelled"} ELSE {}) :
         IF outcome = "done"
         THEN /\ nodeState' = [nodeState EXCEPT ![s] = "done"]
              /\ stepsErr' = stepsErr
         ELSE /\ nodeState' = [n \in Steps |->
                     IF n = s THEN outcome
                     ELSE IF n \in Descendants(s) /\ nodeState[n] = "pending"
                     THEN "cancelled" ELSE nodeState[n]]
              /\ stepsErr' = IF stepsErr # "" THEN stepsErr
                             ELSE IF outcome = "failed" THEN "step failed" ELSE "cancelled"
    /\ UNCHANGED <<flags, calls, requires, stepInputs, postSteps, configSpec, o, stepInputs2,
                   configSpec2, o2, pc, err, queried, nodes, children, ordered,
                   retries, attempts, forbidden, answer, created, lastProject, requests, junitErr,
                   hooksRun, cancelled, handler, exitCode>>

\* after the drain steps.Run returns: success when every node is done,
\* the first recorded error otherwise
StepsRunReturns ==
    /\ Alive /\ pc = "stepsRun"
    /\ Running = {}
    /\ stepsErr # "" \/ cancelled \/ Ready = {}
    /\ stepsErr' = IF \A s \in Members : nodeState[s] = "done" THEN ""
                   ELSE IF stepsErr # "" THEN stepsErr ELSE "cancelled"
    /\ pc' = "writeJUnit"
    /\ calls' = calls \cup (IF stepsErr' = "" THEN {"steps.Run nil"} ELSE {})
    /\ UNCHANGED <<flags, requires, stepInputs, postSteps, configSpec, o, stepInputs2,
                   configSpec2, o2, err, queried, nodes, children, ordered, retries,
                   attempts, forbidden, answer, created, lastProject, requests, nodeState, junitErr,
                   hooksRun, cancelled, handler, exitCode>>

\* ---------------------------------------------- after the graph has run
\* lines 411-416 with the error of writeJUnit returned (a faulty variant)
afterStepsRunJUnitFails(runErr, writeErr) == IF runErr # "" THEN runErr ELSE writeErr

\* lines 411-416: the error of writeJUnit is logged; Run returns the error
\* of steps.Run, if any
afterStepsRun(runErr, writeErr) == runErr

\* lines 692-702: nil (always so without an artifact directory or without
\* suites), or the error of the marshalling or of the write
WriteJUnitAnswers == {"", "write failed"}

\* lines 410-416
WriteJUnit ==
    /\ Alive /\ pc = "writeJUnit"
    /\ \E writeErr \in WriteJUnitAnswers :
         /\ junitErr' = writeErr
         /\ calls' = calls \cup {"writeJUnit"}
         /\ IF afterStepsRun(stepsErr, writeErr) # ""
            THEN Return(afterStepsRun(stepsErr, writeErr))
            ELSE pc' = "postSteps" /\ err' = err
    /\ UNCHANGED <<flags, requires, stepInputs, postSteps, configSpec, o, stepInputs2,
                   configSpec2, o2, queried, nodes, children, ordered, retries,
                   attempts, forbidden, answer, created, lastProject, requests, nodeState, stepsErr,
                   hooksRun, cancelled, handler, exitCode>>

\* lines 419-421 with the error of a post step ignored (a faulty variant)
afterPostStepIgnoreError(result) == "next"

\* lines 419-421: the error of a post step is returned at once
afterPostStep(result) == IF result # "" THEN "return" ELSE "next"

\* lines 418-422: the next post step in the order of postSteps
RunPostStep ==
    /\ Alive /\ pc = "postSteps"
    /\ Len(hooksRun) < postSteps
    /\ \E result \in {"", "post step failed"} :
         /\ hooksRun' = Append(hooksRun, [step |-> Len(hooksRun) + 1, result |-> result])
         /\ calls' = calls \cup {"postSteps"}
         /\ IF afterPostStep(result) = "return" THEN Return(result)
            ELSE pc' = pc /\ err' = err
    /\ UNCHANGED <<flags, requires, stepInputs, postSteps, configSpec, o, stepInputs2,
                   configSpec2, o2, queried, nodes, children, ordered, retries,
                   attempts, forbidden, answer, created, lastProject, requests, nodeState, stepsErr,
                   junitErr, cancelled, handler, exitCode>>

\* line 424
ReturnNil ==
    /\ Alive /\ pc = "postSteps"
    /\ Len(hooksRun) = postSteps
    /\ Return("")
    /\ UNCHANGED <<flags, calls, requires, stepInputs, postSteps, configSpec, o, stepInputs2,
                   configSpec2, o2, queried, nodes, children, ordered, retries,
                   attempts, forbidden, answer, created, lastProject, requests, nodeState, stepsErr,
                   junitErr, hooksRun, cancelled, handler, exitCode>>

\* ------------------------------------------------- the interrupt handler
\* lines 375-379 with the process left at once in every mode (a faulty variant)
onSignalExitAtOnce(dry) == "exit"

\* lines 375-379: in dry mode the process exits at once; otherwise the
\* context is cancelled and the handler sleeps
onSignal(dry) == IF dry THEN "exit" ELSE "cancel"

\* lines 374-380: a signal arrives while Run's function body is running
Interrupt ==
    /\ Alive /\ handler = "idle" /\ pc # "done"
    /\ IF onSignal(o.dry) = "exit"
       THEN handler' = "exited" /\ exitCode' = 0 /\ cancelled' = cancelled
       ELSE handler' = "sleeping" /\ cancelled' = TRUE /\ exitCode' = exitCode
    /\ UNCHANGED <<flags, calls, requires, stepInputs, postSteps, configSpec, o, stepInputs2,
                   configSpec2, o2, pc, err, queried, nodes, children, ordered,
                   retries, attempts, forbidden, answer, created, lastProject, requests, nodeState,
                   stepsErr, junitErr, hooksRun>>

\* lines 380-381: the two seconds are over, the handler ends the process
HandlerExits ==
    /\ Alive /\ handler = "sleeping"
    /\ handler' = "exited" /\ exitCode' = 1
    /\ UNCHANGED <<flags, calls, requires, stepInputs, postSteps, configSpec, o, stepInputs2,
                   configSpec2, o2, pc, err, queried, nodes, children, ordered,
                   retries, attempts, forbidden, answer, created, lastProject, requests, nodeState,
                   stepsErr, junitErr, hooksRun, cancelled>>

\* main, lines 146-150: Run has returned, the process ends
MainExits ==
    /\ Alive /\ pc = "done"
    /\ exitCode' = IF err = "" THEN 0 ELSE 1
    /\ UNCHANGED <<flags, calls, requires, stepInputs, postSteps, configSpec, o, stepInputs2,
                   configSpec2, o2, pc, err, queried, nodes, children, ordered,
                   retries, attempts, forbidden, answer, created, lastProject, requests, nodeState,
                   stepsErr, junitErr, hooksRun, cancelled, handler>>

\* ------------------------------------------------------- specifications
NoOptions == [namespace |-> <<>>, targets |-> {}, dry |-> FALSE, inputHash |-> <<>>]

\* the state of Run before its function body starts
RunStart ==
    /\ pc = "resolveInputs" /\ err = "" /\ queried = <<>> /\ calls = {}
    /\ nodes = <<>> /\ children = [s \in Steps |-> <<>>]
    /\ ordered = [err |-> "", sorted |-> <<>>]
    /\ retries = ForbiddenRetries /\ attempts = 0 /\ created = <<>>
    /\ forbidden = 0 /\ answer = NoAnswer
    /\ lastProject = "" /\ requests = {}
    /\ nodeState = [s \in Steps |-> "absent"]
    /\ stepsErr = "" /\ junitErr = "" /\ hooksRun = <<>>
    /\ cancelled = FALSE /\ handler = "idle" /\ exitCode = -1

NoSecondInvocation ==
    /\ stepInputs2 = <<>> /\ configSpec2 = <<>> /\ o2 = NoOptions

\* the worlds whose steps are listed after the steps they depend on, at most
\* one step requiring the external link
OrderedWorlds ==
    {r \in [1..NumSteps -> SUBSET (0..NumSteps)] :
        /\ \A s \in 1..NumSteps : r[s] \subseteq 0..(s - 1)
        /\ Cardinality({s \in 1..NumSteps : ExternalLink \in r[s]}) <= 1}

\* the targets: names of steps of the world, and one name that is none
TargetSets == SUBSET (1..(NumSteps + 1))

Init ==
    /\ requires \in OrderedWorlds
    /\ stepInputs = [s \in Steps |-> << <<"a">> >>]
    /\ postSteps \in 0..MaxHooks
    /\ configSpec = <<"c">>
    /\ flags \in Options({<<>>}, TargetSets, BOOLEAN)
    /\ o = flags
    /\ NoSecondInvocation
    /\ RunStart

Next ==
    \/ ResolveInputs
    \/ BuildGraph
    \/ PrintExecutionOrder
    \/ InitializeNamespaceDry
    \/ ProjectClientFails
    \/ CreateProject
    \/ CreateResources
    \/ Dispatch
    \/ StepReturns
    \/ StepsRunReturns
    \/ WriteJUnit
    \/ RunPostStep
    \/ ReturnNil
    \/ Interrupt
    \/ HandlerExits
    \/ MainExits

Spec == Init /\ [][Next]_vars

\* ------------------------------------------------------------- properties
Resolved == o.inputHash # <<>>
PrunedGraph == BuildPartialGraph(o.targets)

\* C1 as stated: once resolveInputs has succeeded, the steps whose Inputs
\* were queried are exactly the steps of the graph pruned to the targets.
C1_InputsOfPrunedGraph ==
    Resolved /\ PrunedGraph.err = "" => Range(queried) = PrunedGraph.members

\* C1, amended: once resolveInputs has succeeded, the steps whose Inputs were
\* queried are all the steps of the world (buildSteps), in their order,
\* whatever the targets are and whatever the pruned graph is.
C1_InputsOfWorld == Resolved => queried = Ascending(Steps)

\* C1: inputs have been resolved for targets that prune the world
C1_Witness ==
    /\ Resolved /\ pc = "printOrder"
    /\ PrunedGraph.members # Steps
    /\ queried = Ascending(Steps)

\* a failure before the execution: of a step's Inputs, of BuildPartialGraph,
\* of the topological check
InputsFailed == "resolveInputs" \in calls /\ ~Resolved
BuildFailed == "BuildPartialGraph" \in calls /\ PrunedGraph.err # ""
OrderFailed == "printExecutionOrder" \in calls /\ ordered.err # ""

\* C2: after a failure of a step's Inputs, of BuildPartialGraph or of the
\* topological check, Run has returned an error, and initializeNamespace,
\* steps.Run, writeJUnit and the post steps have not been called and no
\* request has been made to the cluster.
C2_NoWorkspaceAfterFailure ==
    InputsFailed \/ BuildFailed \/ OrderFailed =>
        /\ pc = "done" /\ err # ""
        /\ calls \subseteq {"resolveInputs", "BuildPartialGraph", "printExecutionOrder"}
        /\ requests = {} /\ created = <<>>
        /\ hooksRun = <<>>
        /\ \A s \in Steps : nodeState[s] \in {"absent", "pending"}

\* C2: the topological check has failed and Run has returned its error
C2_Witness == OrderFailed /\ pc = "done" /\ err = "steps are missing dependencies"

\* C3 as stated: steps.Run is called only after initializeNamespace returned
\* nil, and at most one creation request of the project succeeds in a run.
C3_CreatedOnce ==
    /\ "steps.Run" \in calls => "initializeNamespace nil" \in calls
    /\ Len(created) <= 1

\* C3, amended: steps.Run is called only after initializeNamespace returned
\* nil, and every creation request that succeeded, but the last one, returned
\* a project that is Terminating: once a creation request has returned a
\* project that is not Terminating, no other creation request succeeds.
C3_CreatedUntilNotTerminating ==
    /\ "steps.Run" \in calls => "initializeNamespace nil" \in calls
    /\ \A i \in 1..(Len(created) - 1) : created[i] = "Terminating"

\* C3: the graph runs after a second creation request has succeeded
C3_Witness ==
    /\ "steps.Run" \in calls /\ ~o.dry
    /\ Len(created) = 2 /\ created[2] = "Active"

\* C4: a post step is run only after steps.Run returned nil; the post steps
\* run in the order of postSteps, each after the ones before it returned
\* nil; the error of a post step is what Run returns, and no post step runs
\* after it.
C4_PostSteps ==
    /\ hooksRun # <<>> => "steps.Run nil" \in calls
    /\ "writeJUnit" \in calls /\ stepsErr # "" => hooksRun = <<>>
    /\ \A k \in 1..Len(hooksRun) :
          /\ hooksRun[k].step = k
          /\ k < Len(hooksRun) => hooksRun[k].result = ""
          /\ hooksRun[k].result # "" => pc = "done" /\ err = hooksRun[k].result

\* C4: the first post step returned nil, the second has failed
C4_Witness ==
    /\ Len(hooksRun) = 2 /\ postSteps >= 2
    /\ hooksRun[2].result # "" /\ pc = "done"

\* C5 as stated: the process has not exited while a dispatched step is
\* still running.
C5_ExitAfterSteps == ~Alive => Running = {}

\* C5, amended: the handler ends the process only after it has signalled
\* the cancellation and slept (status 1), whether or not the dispatched
\* steps have returned; in dry mode it ends the process at once (status 0),
\* and no step is running then.
C5_ExitAfterCancel ==
    handler = "exited" =>
        IF o.dry THEN exitCode = 0 /\ Running = {}
        ELSE cancelled /\ exitCode = 1

\* C5: the handler has ended the process while a dispatched step was running
C5_Witness == handler = "exited" /\ ~o.dry /\ cancelled /\ Running # {}

\* C8: once writeJUnit has been called, whatever it returned: if steps.Run
\* returned an error Run has returned that error; if steps.Run returned nil
\* the post steps run, and Run returns the error of a post step or nil.
C8_JUnitErrorIgnored ==
    "writeJUnit" \in calls =>
        /\ stepsErr # "" => pc = "done" /\ err = stepsErr
        /\ stepsErr = "" =>
              /\ pc \in {"postSteps", "done"}
              /\ pc = "done" =>
                    \/ err = "" /\ Len(hooksRun) = postSteps
                    \/ /\ hooksRun # <<>>
                       /\ err # "" /\ err = hooksRun[Len(hooksRun)].result

\* C8: the post steps have run although writeJUnit failed
C8_Witness ==
    /\ junitErr # "" /\ stepsErr = "" /\ "writeJUnit" \in calls
    /\ hooksRun # <<>> /\ pc = "done" /\ err = ""

\* ------------------------------------------- topologicalSort on its own
\* the worlds of SortSteps steps: any requires (cycles too), at most one
\* step requiring the external link
SortWorlds ==
    {r \in [1..SortSteps -> SUBSET (0..SortSteps)] :
        /\ \A s \in 1..SortSteps : s \notin r[s]
        /\ Cardinality({s \in 1..SortSteps : ExternalLink \in r[s]}) <= 1}

\* the Children lists of a world, in every order
RECURSIVE ChildrenOrders(_)
ChildrenOrders(n) ==
    IF n = 0 THEN {<<>>}
    ELSE {Append(c, q) : c \in ChildrenOrders(n - 1),
                         q \in Perms({s \in Steps : n \in Parents(s)})}

\* the root lists of a world, in every order
RootOrders == Perms({s \in Steps : Parents(s) = {}})

InitSort ==
    /\ requires \in SortWorlds
    /\ children \in ChildrenOrders(SortSteps)
    /\ nodes \in RootOrders
    /\ flags = NoOptions /\ o = NoOptions
    /\ stepInputs = [s \in Steps |-> <<>>] /\ configSpec = <<>> /\ postSteps = 0
    /\ NoSecondInvocation
    /\ pc = "printOrder" /\ err = "" /\ queried = <<>>
    /\ calls = {"resolveInputs", "BuildPartialGraph"}
    /\ ordered = [err |-> "", sorted |-> <<>>]
    /\ retries = ForbiddenRetries /\ attempts = 0 /\ created = <<>>
    /\ forbidden = 0 /\ answer = NoAnswer
    /\ lastProject = "" /\ requests = {}
    /\ nodeState = [s \in Steps |-> "pending"]
    /\ stepsErr = "" /\ junitErr = "" /\ hooksRun = <<>>
    /\ cancelled = FALSE /\ handler = "idle" /\ exitCode = -1

SpecSort == InitSort /\ [][PrintExecutionOrder]_vars

Sorted == "printExecutionOrder" \in calls

\* the nodes reachable from the root list through Children
Reachable == Range(nodes) \cup DescendantClosure(Range(nodes))

\* a valid graph: every link a step requires is created by a step of the
\* graph, and no step is among its own ancestors
ValidGraph ==
    /\ \A s \in Steps : requires[s] \subseteq UNION {Creates(p) : p \in Steps}
    /\ \A s \in Steps : s \notin AncestorClosure(Parents(s))

\* C9: for a valid graph topologicalSort returns no error, and its result
\* holds every node reachable from the roots exactly once and no other
\* node, each node after the nodes that create what it requires.
C9_ValidLinearization ==
    Sorted /\ ValidGraph =>
        /\ ordered.err = ""
        /\ Range(ordered.sorted) = Reachable
        /\ Len(ordered.sorted) = Cardinality(Reachable)
        /\ \A i \in 1..Len(ordered.sorted) :
              requires[ordered.sorted[i]] \subseteq
                  UNION {Creates(ordered.sorted[j]) : j \in 1..(i - 1)}

\* C9: a valid graph with a node that two parents list as a child is sorted
C9_Witness ==
    /\ Sorted /\ ValidGraph /\ ordered.err = ""
    /\ \E s \in Steps : Cardinality(Parents(s)) >= 2
    /\ Len(ordered.sorted) = SortSteps

\* the order by name: pass after pass, the unseen nodes whose requires are
\* all satisfied, in step-name order
RECURSIVE NameOrder(_, _)
NameOrder(done, satisfied) ==
    LET ready == {s \in Reachable \ done : HasAllLinks(requires[s], satisfied)}
    IN IF ready = {} THEN <<>>
       ELSE Ascending(ready)
            \o NameOrder(done \cup ready, satisfied \cup UNION {Creates(s) : s \in ready})

FlatWorld(n) == [s \in 1..n |-> {}]

InitName ==
    /\ requires = FlatWorld(1)
    /\ stepInputs = [s \in Steps |-> << <<"a">> >>]
    /\ postSteps = 0
    /\ configSpec = <<"c">>
    /\ flags \in Options(Templates, {{}}, {FALSE})
    /\ o = flags
    /\ NoSecondInvocation
    /\ RunStart

SpecName == InitName /\ [][ResolveInputs]_vars

\* whether s holds old from position i on
OccursAt(s, old, i) == i + Len(old) - 1 <= Len(s) /\ SubSeq(s, i, i + Len(old) - 1) = old
Contains(s, old) == \E i \in 1..Len(s) : OccursAt(s, old, i)

\* s with new in the place of every occurrence of the placeholder (two
\* occurrences of the placeholder never overlap), position by position
Substituted(s, new) ==
    Concat([i \in 1..Len(s) |->
        IF OccursAt(s, Placeholder, i) THEN new
        ELSE IF \E j \in 1..(i - 1) :
                    OccursAt(s, Placeholder, j) /\ i < j + Len(Placeholder)
             THEN <<>>
             ELSE <<s[i]>>])

ResolveInputs2 ==
    /\ o2.inputHash = <<>>
    /\ o2' = resolveInputs(o2, [i \in 1..Len(stepInputs2) |-> InputsOf(stepInputs2[i])],
                           configSpec2).o
    /\ UNCHANGED <<flags, calls, requires, stepInputs, postSteps, configSpec, o,
                   stepInputs2, configSpec2, pc, err, queried, nodes, children,
                   ordered, retries, attempts, forbidden, answer, created, lastProject, requests,
                   nodeState, stepsErr, junitErr, hooksRun, cancelled, handler,
                   exitCode>>

\* the definitions a step answers, and the definitions of up to n steps
Definitions == {<<>>, << <<"a">> >>, << <<"b">> >>}
StepDefinitions(n) == SeqsUpTo(Definitions, n)
Configurations == {<<"c">>, <<"a">>}

InitHash ==
    /\ stepInputs \in StepDefinitions(MaxHashSteps)
    /\ requires = FlatWorld(Len(stepInputs))
    /\ postSteps = 0
    /\ configSpec = <<"c">>
    /\ flags = NoOptions /\ o = flags
    /\ stepInputs2 \in StepDefinitions(MaxHashSteps)
    /\ configSpec2 \in Configurations
    /\ o2 \in Options({<<>>, <<"n">> \o Placeholder}, {{}, {1}}, BOOLEAN)
    /\ RunStart

SpecHash == InitHash /\ [][ResolveInputs \/ ResolveInputs2]_vars

\* C6: two invocations of resolveInputs whose steps answered the same
\* strings in the same order, and whose configurations serialize to the
\* same string, have the same inputHash, whatever their namespace, targets
\* and dry flag are.
C6_HashOfInputsAndConfig ==
    /\ Resolved /\ o2.inputHash # <<>>
    /\ Concat(stepInputs) = Concat(stepInputs2)
    /\ configSpec = configSpec2
    => o.inputHash = o2.inputHash

\* C6: two invocations that differ in namespace, targets and dry flag, and
\* in how the steps share the same non-empty list of inputs, are resolved
C6_Witness ==
    /\ Resolved /\ o2.inputHash # <<>>
    /\ Concat(stepInputs) = Concat(stepInputs2) /\ Concat(stepInputs) # <<>>
    /\ stepInputs # stepInputs2
    /\ configSpec = configSpec2
    /\ o2.dry /\ ~o.dry /\ o2.targets # o.targets /\ flags.namespace = <<>>
    /\ o2.namespace # o.namespace
    /\ o.inputHash = o2.inputHash

\* --------------------------------------- the creation loop, in options.Run
\* the requests initializeNamespace issues once it has left the creation loop
ResourceRequests == {"create " \o ResourceKinds[k] : k \in 1..Len(ResourceKinds)}

\* C11: initializeNamespace is past its creation loop (at the cleanup pod,
\* the image stream and the secrets, or having asked for one of them) only
\* when the last create or get of the project returned a project that is not
\* Terminating; an iteration that obtains a Terminating project stays in the
\* loop, with no error returned and no request for another resource issued.
C11_NotWhileTerminating ==
    /\ [](pc = "createResources" \/ requests \cap ResourceRequests # {}
             => lastProject = "Active")
    /\ [][CreateProject /\ lastProject' = "Terminating"
             => /\ pc' = "initializeNamespace" /\ err' = err
                /\ requests' \cap ResourceRequests = {}]_vars

\* C11: the loop is left with an Active project after a create returned a
\* Terminating one and the next create answered that the project exists
C11_Witness ==
    /\ pc = "createResources" /\ lastProject = "Active"
    /\ created = <<"Terminating">>
    /\ "get project" \in requests

\* ----------------------------------------------------------------- dry mode
\* C12: with the dry flag set no request is issued to the cluster, and once
\* initializeNamespace has been called (it returns nil) resolveInputs has
\* called Inputs() on every step, has set the identifier and the namespace
\* named after it, BuildPartialGraph has built the graph of the targets and
\* printExecutionOrder has sorted its nodes.
C12_DryPlansWithoutRequests ==
    o.dry =>
        /\ requests = {} /\ created = <<>>
        /\ "initializeNamespace" \in calls =>
              /\ {"resolveInputs", "BuildPartialGraph", "printExecutionOrder",
                  "initializeNamespace nil"} \subseteq calls
              /\ queried = Ascending(Steps)
              /\ Resolved
              /\ o.namespace = <<"c", "i", "-", "o", "p", "-">> \o o.inputHash
              /\ PrunedGraph.err = "" /\ Range(nodes) \subseteq PrunedGraph.members
              /\ ordered.err = "" /\ Range(ordered.sorted) = PrunedGraph.members

\* C12: a dry run of every step of the world has gone past initializeNamespace
C12_Witness ==
    /\ o.dry /\ "initializeNamespace nil" \in calls
    /\ Len(ordered.sorted) = NumSteps /\ Len(queried) = NumSteps
    /\ requests = {}

\* ------------------------------------------- topologicalSort when stuck
\* the reachable nodes that can be emitted at all: those whose requires are
\* created by nodes that can be emitted
RECURSIVE Emittable(_)
Emittable(S) ==
    LET T == S \cup {s \in Reachable : HasAllLinks(requires[s], UNION {Creates(p) : p \in S})}
    IN IF T = S THEN S ELSE Emittable(T)

\* a pass that emitted no node and left nodes waiting
StuckPass(p) == ~p.changed /\ Len(p.waiting) > 0

\* C13: topologicalSort returns "steps are missing dependencies", and no
\* ordering, exactly when one of its passes emitted no node while nodes,
\* all of them unseen, were waiting; that pass is its last one and every
\* pass before it emitted a node; an ordering it returns holds every
\* reachable node; and it fails exactly when some reachable node requires
\* a link that no node that can be emitted creates.
C13_FailsWhenStuck ==
    Sorted =>
        LET ps == sortPasses(nodes, SortStart)
        IN /\ ordered.err \in {"", "steps are missing dependencies"}
           /\ ordered.err # "" <=> \E k \in 1..Len(ps) : StuckPass(ps[k])
           /\ \A k \in 1..Len(ps) :
                 StuckPass(ps[k]) => /\ k = Len(ps)
                                     /\ Range(ps[k].waiting) \cap ps[k].seen = {}
                                     /\ Range(ps[k].waiting) \subseteq Reachable
           /\ \A k \in 1..(Len(ps) - 1) : ps[k].changed
           /\ ordered.err # "" => ordered.sorted = <<>> /\ err = ordered.err
           /\ ordered.err = "" => /\ Range(ordered.sorted) = Reachable
                                  /\ Len(ordered.sorted) = Cardinality(Reachable)
           /\ ordered.err # "" <=> Emittable({}) # Reachable

\* C13: the sort fails in its second pass, after a first pass that emitted
\* a node, on a node whose requires a step of the graph creates in part
C13_Witness ==
    /\ Sorted /\ ordered.err = "steps are missing dependencies"
    /\ Len(sortPasses(nodes, SortStart)) = 2
    /\ \E s \in Reachable : /\ ExternalLink \in requires[s]
                            /\ requires[s] \cap UNION {Creates(p) : p \in Range(nodes)} # {}

\* --------------------------------------------------- the Forbidden retries
\* C14: in one call of initializeNamespace, a get of the project answered
\* Forbidden is retried when fewer than 5 gets were answered Forbidden
\* before it, whatever iterations came in between (an iteration that finds
\* no project or a Terminating one goes round and leaves the count as it
\* is); after 5 of them the next one, and a get that fails otherwise at any
\* time, returns "cannot retrieve test namespace"; a create that fails
\* otherwise than with AlreadyExists returns "could not set up namespace
\* for test" at once, no get made.
C14_ForbiddenRetriesBounded ==
    /\ [](pc = "initializeNamespace" => forbidden <= ForbiddenRetries)
    /\ [][CreateProject =>
            LET create == answer'[1]
                get == answer'[2]
            IN /\ create = "error" =>
                     /\ pc' = "done" /\ err' = "could not set up namespace for test"
                     /\ get = "" /\ requests' = requests \cup {"create project"}
               /\ get = "Forbidden" =>
                     IF forbidden < ForbiddenRetries
                     THEN pc' = "initializeNamespace" /\ err' = err
                          /\ forbidden' = forbidden + 1
                     ELSE pc' = "done" /\ err' = "cannot retrieve test namespace"
               /\ get = "error" =>
                     pc' = "done" /\ err' = "cannot retrieve test namespace"
               /\ get \in {"NotFound", "Terminating"} \/ create = "Terminating" =>
                     pc' = "initializeNamespace" /\ err' = err
                     /\ forbidden' = forbidden]_vars

\* C14: the sixth get answered Forbidden has made initializeNamespace return,
\* in a call in which a create returned a Terminating project
C14_Witness ==
    /\ pc = "done" /\ err = "cannot retrieve test namespace"
    /\ forbidden = ForbiddenRetries + 1 /\ answer = <<"AlreadyExists", "Forbidden">>
    /\ created = <<"Terminating">>

\* ------------------------------------------ initializeNamespace on its own
\* the state of Run when it calls initializeNamespace (line 405): the inputs
\* are resolved, the graph of the targets is built and sorted, nothing failed
InitNamespace ==
    /\ requires \in OrderedWorlds
    /\ stepInputs = [s \in Steps |-> << <<"a">> >>]
    /\ postSteps = 0
    /\ configSpec = <<"c">>
    /\ flags \in Options({<<>>}, TargetSets, BOOLEAN)
    /\ o = resolveInputs(flags, [i \in 1..Len(ResolvedSteps) |->
                                    InputsOf(stepInputs[ResolvedSteps[i]])], configSpec).o
    /\ NoSecondInvocation
    /\ BuildPartialGraph(o.targets).err = ""
    /\ nodes = BuildPartialGraph(o.targets).roots
    /\ children = BuildPartialGraph(o.targets).children
    /\ nodeState = [s \in Steps |-> IF s \in BuildPartialGraph(o.targets).members
                                    THEN "pending" ELSE "absent"]
    /\ ordered = topologicalSort(nodes)
    /\ ordered.err = ""
    /\ pc = "initializeNamespace" /\ err = "" /\ queried = ResolvedSteps
    /\ calls = {"resolveInputs", "BuildPartialGraph", "printExecutionOrder"}
    /\ retries = ForbiddenRetries /\ attempts = 0 /\ created = <<>>
    /\ forbidden = 0 /\ answer = NoAnswer
    /\ lastProject = "" /\ requests = {}
    /\ stepsErr = "" /\ junitErr = "" /\ hooksRun = <<>>
    /\ cancelled = FALSE /\ handler = "idle" /\ exitCode = -1

NextNamespace ==
    \/ InitializeNamespaceDry
    \/ ProjectClientFails
    \/ CreateProject
    \/ CreateResources

\* the cluster answers a create or a get of the project with a project
\* that is not Terminating
ProjectObtained == CreateProject /\ lastProject' = "Active"

\* initializeNamespace under the assumption that, as long as the loop asks,
\* the cluster at last answers with a project that is not Terminating
SpecNamespace == InitNamespace /\ [][NextNamespace]_vars /\ WF_vars(ProjectObtained)

\* C15: under that assumption on the cluster, initializeNamespace called
\* without the dry flag at last leaves its creation loop: it goes on to the
\* cleanup pod, the image stream and the secrets, or it returns an error.
C15_LeavesLoop ==
    (pc = "initializeNamespace" /\ ~o.dry) ~> (pc \in {"createResources", "stepsRun", "done"})

\* C15: the loop is left with a project a get returned, after a create
\* returned a Terminating project, for a graph of every step of the world
C15_Witness ==
    /\ pc = "createResources" /\ ~o.dry
    /\ answer = <<"AlreadyExists", "Active">>
    /\ created = <<"Terminating">>
    /\ Len(ordered.sorted) = NumSteps
====
